---- MODULE Spec2Model ----
(***************************************************************************)
(* Camera (src/src/camera/camera.ts) and MeshShader (src/unnamed/part_000) *)
(* of pixi3d as state machines.                                            *)
(*                                                                         *)
(* JavaScript values are records [t, n]: a number n, NaN or undefined.     *)
(* Distances (near, far, distance) are counted in tenths of a world unit,  *)
(* so the default near plane 0.1 is 1 and the default far plane 1000 is    *)
(* 10000.  A matrix is represented by the arguments it was computed from.  *)
(*                                                                         *)
(* Camera instances do not share instance state; the model follows the     *)
(* instance fields of the first camera constructed, and of every later     *)
(* construction only its effect on the static Camera.main.                 *)
(***************************************************************************)
EXTENDS Integers, Sequences, FiniteSets, TLC

VARIABLES
  constructed,      \* number of Camera objects constructed so far
  main,             \* Camera.main: 0 while unset, else the number of the camera
  _id,              \* Camera._id, the dirty counter
  _aspect, _fieldOfView, _near, _far,
  _projection, _view, _viewProjection,  \* the MatrixComponent caches
  _worldID,         \* transform._worldID
  localDirty,       \* transform._localID !== transform._currentLocalID
  parent,           \* camera.parent
  rendererSize,     \* <<renderer.width, renderer.height>>
  point,            \* the point handed to screenToWorld
  lastCall,         \* the last operation called and what it returned
  shaderAttributes, \* the <<geometry, shader>> pairs that have attributes
  addCalls,         \* per pair, the calls of geometry.addShaderAttributes(shader)
  rendered          \* arguments and renderer calls of the last MeshShader.render

cameraVars == <<constructed, main, _id, _aspect, _fieldOfView, _near, _far,
                _projection, _view, _viewProjection, _worldID, localDirty,
                parent, rendererSize, point, lastCall>>
meshVars == <<shaderAttributes, addCalls, rendered>>
vars == <<constructed, main, _id, _aspect, _fieldOfView, _near, _far,
          _projection, _view, _viewProjection, _worldID, localDirty,
          parent, rendererSize, point, lastCall, shaderAttributes, addCalls,
          rendered>>

----------------------------------------------------------------------------
(* Bounds *)
MaxId == 3
MaxWorldID == 2
MaxCameras == 2
MaxGeometries == 2
MaxShaders == 2

----------------------------------------------------------------------------
(* JavaScript values *)
Num(n) == [t |-> "number", n |-> n]
NaN == [t |-> "NaN", n |-> 0]
Undefined == [t |-> "undefined", n |-> 0]

\* a !== b
StrictNeq(a, b) == a.t = "NaN" \/ b.t = "NaN" \/ a # b

\* the value counts as true in a condition (!v is false)
Truthy(v) ==
  CASE v.t = "number" -> v.n # 0
    [] v.t \in {"NaN", "undefined"} -> FALSE
    [] OTHER -> TRUE   \* an object

DefaultFieldOfView == 60
DefaultNear == 1
DefaultFar == 10000

AspectValues == {Undefined, Num(0), Num(2)}
FieldOfViewValues == {Num(DefaultFieldOfView), Num(90)}
NearValues == {Num(DefaultNear), Num(2)}
FarValues == {Num(DefaultFar), Num(2), NaN}
Distances == {Num(0), Num(2), Num(DefaultFar)}
Sizes == {<<4, 2>>, <<2, 2>>}
ScreenXs == {0, 1}
ScreenYs == {0}
Null == "null"
Stage == "stage"

----------------------------------------------------------------------------
(* Matrices and the MatrixComponent cache *)
NoMatrix == [kind |-> "none"]
NoComponent == [made |-> FALSE, id |-> 0, array |-> NoMatrix]

\* Camera.id
id == _worldID + _id

\* renderer.width / renderer.height (the sizes of Sizes divide exactly)
RendererRatio == Num(rendererSize[1] \div rendererSize[2])

\* this._aspect || this.renderer.width / this.renderer.height
EffectiveAspect(aspect) == IF Truthy(aspect) THEN aspect ELSE RendererRatio

\* Mat4.perspective(fovy, aspect, near, far)
Perspective(fov, aspect, near, far) ==
  [kind |-> "perspective", fov |-> fov, aspect |-> aspect, near |-> near, far |-> far]

\* the update callback of the projection component
ProjectionUpdate == Perspective(_fieldOfView, EffectiveAspect(_aspect), _near, _far)

\* Mat4.lookAt of the world transform (position, target, up), which changes
\* exactly when _worldID does
ViewUpdate == [kind |-> "lookAt", world |-> _worldID]

\* Mat4.multiply(projection, view)
Multiply(p, v) == [kind |-> "multiply", p |-> p, v |-> v]

\* MatrixComponent.array: recompute when the component's id differs from the
\* parent's, and remember the id
ComponentArray(component, parentId, update) ==
  IF component.made /\ component.id = parentId
    THEN component
    ELSE [made |-> TRUE, id |-> parentId, array |-> update]

\* Mat4.invert: null when the determinant is 0 or NaN.  The view matrix is a
\* rigid motion (determinant 1); the determinant of the perspective matrix is
\* (f/aspect) * f * 2*far*near/(near-far).
IsNumber(v) == v.t = "number"
InvertFails(m) ==
  LET p == m.p IN
    \/ ~IsNumber(p.fov) \/ ~IsNumber(p.aspect) \/ ~IsNumber(p.near) \/ ~IsNumber(p.far)
    \/ p.fov.n = 0 \/ p.aspect.n = 0
    \/ p.near.n * p.far.n = 0
    \/ p.near.n = p.far.n

----------------------------------------------------------------------------
Call(op) ==
  [op |-> op, arg |-> Undefined, ret |-> "undefined", inverted |-> FALSE, updated |-> FALSE]

InitialPoint == [kind |-> "initial"]

CameraInit ==
  /\ constructed = 0
  /\ main = 0
  /\ _id = 0
  /\ _aspect = Undefined
  /\ _fieldOfView = Num(DefaultFieldOfView)
  /\ _near = Num(DefaultNear)
  /\ _far = Num(DefaultFar)
  /\ _projection = NoComponent
  /\ _view = NoComponent
  /\ _viewProjection = NoComponent
  /\ _worldID = 0
  /\ localDirty = FALSE
  /\ parent = Null
  /\ rendererSize \in Sizes
  /\ point = InitialPoint
  /\ lastCall = Call("none")

----------------------------------------------------------------------------
(* Camera *)

\* Camera.main = this, without the test
MainAlwaysThis(current, this) == this

\* if (!Camera.main) { Camera.main = this }
MainAfterConstruct(current, this) == IF current = 0 THEN this ELSE current

\* new Camera(renderer): the first construction also sets position.z and the
\* rotation of the followed instance, which marks its local transform changed
Construct ==
  /\ constructed < MaxCameras
  /\ constructed' = constructed + 1
  /\ main' = MainAfterConstruct(main, constructed + 1)
  /\ localDirty' = IF constructed = 0 THEN TRUE ELSE localDirty
  /\ lastCall' = Call("constructor")
  /\ UNCHANGED <<_id, _aspect, _fieldOfView, _near, _far, _projection, _view,
                 _viewProjection, _worldID, parent, rendererSize, point>>

SetAspect(value) ==
  /\ constructed >= 1 /\ _id < MaxId
  /\ IF StrictNeq(_aspect, value)
       THEN _aspect' = value /\ _id' = _id + 1
       ELSE UNCHANGED <<_aspect, _id>>
  /\ lastCall' = [Call("set aspect") EXCEPT !.arg = value]
  /\ UNCHANGED <<constructed, main, _fieldOfView, _near, _far, _projection, _view,
                 _viewProjection, _worldID, localDirty, parent, rendererSize, point>>

SetFieldOfView(value) ==
  /\ constructed >= 1 /\ _id < MaxId
  /\ IF StrictNeq(_fieldOfView, value)
       THEN _fieldOfView' = value /\ _id' = _id + 1
       ELSE UNCHANGED <<_fieldOfView, _id>>
  /\ lastCall' = [Call("set fieldOfView") EXCEPT !.arg = value]
  /\ UNCHANGED <<constructed, main, _aspect, _near, _far, _projection, _view,
                 _viewProjection, _worldID, localDirty, parent, rendererSize, point>>

\* the near setter without this._id++
SetNearSilent(value) ==
  /\ constructed >= 1 /\ _id < MaxId
  /\ _near' = IF StrictNeq(_near, value) THEN value ELSE _near
  /\ lastCall' = [Call("set near") EXCEPT !.arg = value]
  /\ UNCHANGED <<constructed, main, _id, _aspect, _fieldOfView, _far, _projection,
                 _view, _viewProjection, _worldID, localDirty, parent, rendererSize,
                 point>>

SetNear(value) ==
  /\ constructed >= 1 /\ _id < MaxId
  /\ IF StrictNeq(_near, value)
       THEN _near' = value /\ _id' = _id + 1
       ELSE UNCHANGED <<_near, _id>>
  /\ lastCall' = [Call("set near") EXCEPT !.arg = value]
  /\ UNCHANGED <<constructed, main, _aspect, _fieldOfView, _far, _projection, _view,
                 _viewProjection, _worldID, localDirty, parent, rendererSize, point>>

\* the far setter without the test
SetFarAlways(value) ==
  /\ constructed >= 1 /\ _id < MaxId
  /\ _far' = value /\ _id' = _id + 1
  /\ lastCall' = [Call("set far") EXCEPT !.arg = value]
  /\ UNCHANGED <<constructed, main, _aspect, _fieldOfView, _near, _projection, _view,
                 _viewProjection, _worldID, localDirty, parent, rendererSize, point>>

SetFar(value) ==
  /\ constructed >= 1 /\ _id < MaxId
  /\ IF StrictNeq(_far, value)
       THEN _far' = value /\ _id' = _id + 1
       ELSE UNCHANGED <<_far, _id>>
  /\ lastCall' = [Call("set far") EXCEPT !.arg = value]
  /\ UNCHANGED <<constructed, main, _aspect, _fieldOfView, _near, _projection, _view,
                 _viewProjection, _worldID, localDirty, parent, rendererSize, point>>

\* transform.updateTransform(): the world transform is recomputed, and
\* _worldID incremented, when the local transform changed; whether it is also
\* recomputed otherwise (the parent's transform changed, or no parent is
\* given) is left open
UpdateTransform(bump) ==
  /\ (localDirty \/ bump) => _worldID < MaxWorldID
  /\ _worldID' = IF localDirty \/ bump THEN _worldID + 1 ELSE _worldID
  /\ localDirty' = FALSE

\* if (!this._aspect) { this._id++ }
PrerenderId(aspect, counter) == IF ~Truthy(aspect) THEN counter + 1 ELSE counter

\* this.transform.updateTransform(), without the test
PrerenderUpdatesAlways(p) == TRUE

\* if (!this.parent) { this.transform.updateTransform() }
PrerenderUpdates(p) == p = Null

\* the handler of the renderer's "prerender" event
Prerender ==
  /\ constructed >= 1 /\ _id < MaxId
  /\ _id' = PrerenderId(_aspect, _id)
  /\ IF PrerenderUpdates(parent)
       THEN \E bump \in BOOLEAN : UpdateTransform(bump)
       ELSE UNCHANGED <<_worldID, localDirty>>
  /\ lastCall' = [Call("prerender") EXCEPT !.updated = PrerenderUpdates(parent)]
  /\ UNCHANGED <<constructed, main, _aspect, _fieldOfView, _near, _far, _projection,
                 _view, _viewProjection, parent, rendererSize, point>>

\* the scene graph updates the transform of an attached camera
HostUpdateTransform ==
  /\ constructed >= 1 /\ parent # Null
  /\ \E bump \in BOOLEAN : UpdateTransform(bump)
  /\ lastCall' = Call("updateTransform")
  /\ UNCHANGED <<constructed, main, _id, _aspect, _fieldOfView, _near, _far,
                 _projection, _view, _viewProjection, parent, rendererSize, point>>

\* the camera is moved or rotated (transform.position, rotationQuaternion)
MoveCamera ==
  /\ constructed >= 1 /\ _worldID < MaxWorldID
  /\ localDirty' = TRUE
  /\ lastCall' = Call("move")
  /\ UNCHANGED <<constructed, main, _id, _aspect, _fieldOfView, _near, _far,
                 _projection, _view, _viewProjection, _worldID, parent,
                 rendererSize, point>>

\* the camera is added to or removed from a container
SetParent(p) ==
  /\ constructed >= 1 /\ p # parent
  /\ parent' = p
  /\ lastCall' = Call("setParent")
  /\ UNCHANGED <<constructed, main, _id, _aspect, _fieldOfView, _near, _far,
                 _projection, _view, _viewProjection, _worldID, localDirty,
                 rendererSize, point>>

\* the renderer is resized
Resize(size) ==
  /\ constructed >= 1 /\ size # rendererSize
  /\ rendererSize' = size
  /\ lastCall' = Call("resize")
  /\ UNCHANGED <<constructed, main, _id, _aspect, _fieldOfView, _near, _far,
                 _projection, _view, _viewProjection, _worldID, localDirty,
                 parent, point>>

\* get projection
ReadProjection ==
  /\ constructed >= 1
  /\ _projection' = ComponentArray(_projection, id, ProjectionUpdate)
  /\ lastCall' = Call("projection")
  /\ UNCHANGED <<constructed, main, _id, _aspect, _fieldOfView, _near, _far,
                 _view, _viewProjection, _worldID, localDirty, parent,
                 rendererSize, point>>

\* get view
ReadView ==
  /\ constructed >= 1
  /\ _view' = ComponentArray(_view, id, ViewUpdate)
  /\ lastCall' = Call("view")
  /\ UNCHANGED <<constructed, main, _id, _aspect, _fieldOfView, _near, _far,
                 _projection, _viewProjection, _worldID, localDirty, parent,
                 rendererSize, point>>

\* get viewProjection, read while the camera's id is cid and its far plane is
\* far: the three components afterwards.  Its update callback reads
\* this.projection and this.view.
ViewProjectionRead(cid, far) ==
  IF _viewProjection.made /\ _viewProjection.id = cid
    THEN [projection |-> _projection, view |-> _view, viewProjection |-> _viewProjection]
    ELSE LET p == ComponentArray(_projection, cid,
                    Perspective(_fieldOfView, EffectiveAspect(_aspect), _near, far))
             v == ComponentArray(_view, cid, ViewUpdate)
         IN [projection |-> p, view |-> v,
             viewProjection |-> [made |-> TRUE, id |-> cid,
                                 array |-> Multiply(p.array, v.array)]]

ReadViewProjection ==
  /\ constructed >= 1
  /\ LET r == ViewProjectionRead(id, _far) IN
       /\ _projection' = r.projection
       /\ _view' = r.view
       /\ _viewProjection' = r.viewProjection
  /\ lastCall' = Call("viewProjection")
  /\ UNCHANGED <<constructed, main, _id, _aspect, _fieldOfView, _near, _far,
                 _worldID, localDirty, parent, rendererSize, point>>

\* point.set(worldSpace[0], worldSpace[1], worldSpace[2]): the clip space point
\* (x, y, 1) transformed by the inverted view-projection matrix m lies on the
\* far plane of m, at the screen position (x, y)
WorldPoint(x, y, m) == [kind |-> "world", x |-> x, y |-> y, depth |-> m.p.far]

\* screenToWorld with the point set before the inverted matrix is tested
ScreenToWorldSetsFirst(x, y, distance) ==
  /\ constructed >= 1 /\ _id + 2 <= MaxId
  /\ LET far == _far
         changed == StrictNeq(_far, distance)
         farSet == IF changed THEN distance ELSE _far
         idSet == IF changed THEN _id + 1 ELSE _id
         r == ViewProjectionRead(_worldID + idSet, farSet)
     IN /\ _projection' = r.projection
        /\ _view' = r.view
        /\ _viewProjection' = r.viewProjection
        /\ point' = WorldPoint(x, y, r.viewProjection.array)
        /\ IF InvertFails(r.viewProjection.array)
             THEN /\ _far' = farSet
                  /\ _id' = idSet
                  /\ lastCall' = [Call("screenToWorld") EXCEPT !.arg = distance]
             ELSE /\ _far' = IF StrictNeq(farSet, far) THEN far ELSE farSet
                  /\ _id' = IF StrictNeq(farSet, far) THEN idSet + 1 ELSE idSet
                  /\ lastCall' = [Call("screenToWorld") EXCEPT !.arg = distance,
                                     !.ret = "point", !.inverted = TRUE]
  /\ UNCHANGED <<constructed, main, _aspect, _fieldOfView, _near, _worldID,
                 localDirty, parent, rendererSize>>

\* screenToWorld(x, y, distance, point)
ScreenToWorld(x, y, distance) ==
  /\ constructed >= 1 /\ _id + 2 <= MaxId
  /\ LET far == _far
         changed == StrictNeq(_far, distance)
         farSet == IF changed THEN distance ELSE _far
         idSet == IF changed THEN _id + 1 ELSE _id
         r == ViewProjectionRead(_worldID + idSet, farSet)
     IN /\ _projection' = r.projection
        /\ _view' = r.view
        /\ _viewProjection' = r.viewProjection
        /\ IF InvertFails(r.viewProjection.array)
             THEN /\ _far' = farSet
                  /\ _id' = idSet
                  /\ point' = point
                  /\ lastCall' = [Call("screenToWorld") EXCEPT !.arg = distance]
             ELSE /\ _far' = IF StrictNeq(farSet, far) THEN far ELSE farSet
                  /\ _id' = IF StrictNeq(farSet, far) THEN idSet + 1 ELSE idSet
                  /\ point' = WorldPoint(x, y, r.viewProjection.array)
                  /\ lastCall' = [Call("screenToWorld") EXCEPT !.arg = distance,
                                     !.ret = "point", !.inverted = TRUE]
  /\ UNCHANGED <<constructed, main, _aspect, _fieldOfView, _near, _worldID,
                 localDirty, parent, rendererSize>>

----------------------------------------------------------------------------
(* MeshShader *)
Geometries == 1..MaxGeometries
Shaders == 1..MaxShaders

Object(kind, n) == [t |-> kind, n |-> n]

\* PIXI.DRAW_MODES
POINTS == 0
TRIANGLES == 4
TRIANGLE_FAN == 6
DRAW_MODES == {Num(m) : m \in POINTS..TRIANGLE_FAN}

\* MeshShader.state and MeshShader.drawMode, the defaults of shader s
DefaultState(s) == Object("default state", s)
DefaultDrawMode == Num(TRIANGLES)
CustomState == Object("state", 0)

StateArgs == {Undefined, CustomState}
DrawModeArgs == {Undefined} \cup DRAW_MODES

RendererCall(fn, arg) == [fn |-> fn, arg |-> arg]

\* state || this.state
StateUsed(state, s) == IF Truthy(state) THEN state ELSE DefaultState(s)

\* drawMode || this.drawMode
DrawModeUsed(drawMode) == IF Truthy(drawMode) THEN drawMode ELSE DefaultDrawMode

\* mesh.geometry.hasShaderAttributes(shader)
HasShaderAttributes(g, s) == <<g, s>> \in shaderAttributes

\* addShaderAttributes(this), without the test
AddsShaderAttributesAlways(has) == TRUE

\* if (!mesh.geometry.hasShaderAttributes(this)) { ...addShaderAttributes(this) }
AddsShaderAttributes(has) == ~has

\* the calls MeshShader.render makes, in order
RenderCalls(g, s, state, drawMode) ==
  (IF AddsShaderAttributes(HasShaderAttributes(g, s))
     THEN <<RendererCall("geometry.addShaderAttributes", Object("shader", s))>>
     ELSE <<>>)
  \o <<RendererCall("shader.bind", Object("shader", s)),
       RendererCall("state.set", StateUsed(state, s)),
       RendererCall("geometry.bind", Object("geometry", g)),
       RendererCall("geometry.draw", DrawModeUsed(drawMode))>>

\* shader s .render(mesh with geometry g, renderer, state, drawMode)
Render(g, s, state, drawMode) ==
  /\ rendered' = [geometry |-> g, shader |-> s, state |-> state,
                  drawMode |-> drawMode, calls |-> RenderCalls(g, s, state, drawMode)]
  /\ IF AddsShaderAttributes(HasShaderAttributes(g, s))
       THEN /\ shaderAttributes' = shaderAttributes \cup {<<g, s>>}
            /\ addCalls' = [addCalls EXCEPT ![<<g, s>>] = @ + 1]
       ELSE UNCHANGED <<shaderAttributes, addCalls>>
  /\ UNCHANGED cameraVars

NotRendered ==
  [geometry |-> 0, shader |-> 0, state |-> Undefined, drawMode |-> Undefined,
   calls |-> <<>>]

MeshInit ==
  /\ shaderAttributes = {}
  /\ addCalls = [pair \in Geometries \X Shaders |-> 0]
  /\ rendered = NotRendered

MeshNext ==
  \E g \in Geometries, s \in Shaders, state \in StateArgs, drawMode \in DrawModeArgs :
    Render(g, s, state, drawMode)

----------------------------------------------------------------------------
(* Specifications *)

\* the state when the module has been loaded: no camera constructed
Init == CameraInit /\ MeshInit

\* the state after new Camera(renderer)
Constructed ==
  /\ constructed = 1
  /\ main = MainAfterConstruct(0, 1)
  /\ localDirty = TRUE
  /\ _id = 0
  /\ _aspect = Undefined
  /\ _fieldOfView = Num(DefaultFieldOfView)
  /\ _near = Num(DefaultNear)
  /\ _far = Num(DefaultFar)
  /\ _projection = NoComponent
  /\ _view = NoComponent
  /\ _viewProjection = NoComponent
  /\ _worldID = 0
  /\ parent = Null
  /\ rendererSize \in Sizes
  /\ point = InitialPoint
  /\ lastCall = Call("constructor")
  /\ MeshInit

Assign ==
  \/ \E value \in AspectValues : SetAspect(value)
  \/ \E value \in FieldOfViewValues : SetFieldOfView(value)
  \/ \E value \in NearValues : SetNear(value)
  \/ \E value \in FarValues : SetFar(value)

Transform ==
  \/ HostUpdateTransform
  \/ MoveCamera
  \/ \E p \in {Null, Stage} : SetParent(p)

\* parameter assignments, prerender events, world-transform updates and
\* reads of the projection, directly and through the view-projection, the
\* renderer size held fixed
FixedSizeNext ==
  \/ Assign /\ UNCHANGED meshVars
  \/ Prerender /\ UNCHANGED meshVars
  \/ Transform /\ UNCHANGED meshVars
  \/ ReadProjection /\ UNCHANGED meshVars
  \/ ReadViewProjection /\ UNCHANGED meshVars

FixedSizeSpec == Constructed /\ [][FixedSizeNext]_vars

\* parameter assignments, prerender events, world-transform updates and
\* projection reads with a renderer that may be resized
Next ==
  \/ Assign /\ UNCHANGED meshVars
  \/ Prerender /\ UNCHANGED meshVars
  \/ Transform /\ UNCHANGED meshVars
  \/ ReadProjection /\ UNCHANGED meshVars
  \/ \E size \in Sizes : Resize(size) /\ UNCHANGED meshVars

Spec == Constructed /\ [][Next]_vars

\* screenToWorld and the reads of the matrices it depends on
ScreenNext ==
  \/ \E x \in ScreenXs, y \in ScreenYs, distance \in Distances :
       ScreenToWorld(x, y, distance) /\ UNCHANGED meshVars
  \/ Assign /\ UNCHANGED meshVars
  \/ Prerender /\ UNCHANGED meshVars
  \/ ReadProjection /\ UNCHANGED meshVars
  \/ ReadView /\ UNCHANGED meshVars
  \/ ReadViewProjection /\ UNCHANGED meshVars

ScreenSpec == Constructed /\ [][ScreenNext]_vars

\* cameras being constructed while the first one is in use
MainNext ==
  \/ Construct /\ UNCHANGED meshVars
  \/ \E value \in AspectValues : SetAspect(value) /\ UNCHANGED meshVars
  \/ Prerender /\ UNCHANGED meshVars
  \/ ReadProjection /\ UNCHANGED meshVars

MainSpec == Init /\ [][MainNext]_vars

\* the mesh shader
MeshSpec == Init /\ [][MeshNext]_vars

----------------------------------------------------------------------------
(* Properties *)

\* the step is a call of op
Called(op) == lastCall'.op = op

\* assigning value to a parameter stored as before leaves it as after:
\* stored and counted once when value !== before, nothing otherwise
Assigned(before, after, value) ==
  /\ _worldID' = _worldID
  /\ IF StrictNeq(before, value)
       THEN after = value /\ _id' = _id + 1 /\ _worldID' + _id' # _worldID + _id
       ELSE after = before /\ _id' = _id

\* C1: each of the setters aspect, fieldOfView, near and far stores a value
\* that differs (!==) from the stored one and increases the dirty counter by
\* exactly 1, so that camera.id changes while _worldID does not; assigning
\* the stored value changes neither the parameter nor the counter.
C1_SettersCount ==
  [][/\ Called("set aspect") => Assigned(_aspect, _aspect', lastCall'.arg)
     /\ Called("set fieldOfView") => Assigned(_fieldOfView, _fieldOfView', lastCall'.arg)
     /\ Called("set near") => Assigned(_near, _near', lastCall'.arg)
     /\ Called("set far") => Assigned(_far, _far', lastCall'.arg)]_vars

C1_Witness ==
  /\ lastCall.op = "set far" /\ lastCall.arg = Num(2)
  /\ _far = Num(2) /\ _id = 1 /\ _worldID = 0

\* C2: with the renderer size fixed, the projection component's matrix is
\* the perspective matrix of the current fieldOfView, near, far and effective
\* aspect whenever its id equals camera.id (when a read reuses it); _worldID
\* and the dirty counter never decrease, and a change of a parameter
\* increases camera.id.
C2_ProjectionCurrent ==
  /\ [](_projection.made /\ _projection.id = id => _projection.array = ProjectionUpdate)
  /\ [][/\ _worldID' >= _worldID
         /\ _id' >= _id
         /\ <<_aspect, _fieldOfView, _near, _far>>' # <<_aspect, _fieldOfView, _near, _far>>
              => _worldID' + _id' > _worldID + _id]_vars

C2_Witness ==
  /\ lastCall.op = "projection"
  /\ _projection.made /\ _projection.id = id /\ id >= 2
  /\ _near # Num(DefaultNear) /\ _projection.array.near = _near

\* C3: the projection is computed with the camera's own aspect when one is
\* set and with renderer.width / renderer.height when none is; a prerender
\* event increments the dirty counter by 1 while none is set, so that the
\* projection read next uses the renderer's current ratio, and leaves the
\* counter unchanged while one is set.
C3_AspectWhenSet ==
  [][/\ Called("prerender") => _id' = IF _aspect = Undefined THEN _id + 1 ELSE _id
     /\ Called("projection") /\ ~(_projection.made /\ _projection.id = id) =>
          _projection'.array.aspect = IF _aspect = Undefined THEN RendererRatio ELSE _aspect
     /\ Called("projection") /\ lastCall.op = "prerender" /\ _aspect = Undefined =>
          _projection'.array.aspect = RendererRatio]_vars

\* C4: Camera.main is the first camera constructed: a construction sets it
\* only while it is unset, and it refers to the first camera after any number
\* of constructions.
C4_MainIsFirst ==
  /\ [](main = IF constructed = 0 THEN 0 ELSE 1)
  /\ [][Called("constructor") => main' = IF main = 0 THEN constructed' ELSE main]_vars

C4_Witness == constructed >= 2 /\ main = 1 /\ lastCall.op = "constructor"

\* the argument of the last call of fn in the last render
CallArg(fn) ==
  LET i == CHOOSE i \in 1..Len(rendered.calls) : rendered.calls[i].fn = fn
  IN rendered.calls[i].arg

\* C5: render sets the renderer state to the state argument whenever one is
\* passed and to the shader's default state only when none is, and draws with
\* the drawMode argument whenever one is passed, for every value of
\* PIXI.DRAW_MODES, and with the shader's default drawMode only when none is.
C5_ArgumentsUsed ==
  rendered.calls # <<>> =>
    /\ CallArg("state.set") =
         IF rendered.state # Undefined THEN rendered.state ELSE DefaultState(rendered.shader)
    /\ CallArg("geometry.draw") =
         IF rendered.drawMode # Undefined THEN rendered.drawMode ELSE DefaultDrawMode

\* C6: screenToWorld leaves the far clipping plane unchanged on every return
\* path, for every distance.
C6_FarRestored == [][Called("screenToWorld") => _far' = _far]_vars

\* C7: when the inversion of the view-projection matrix fails, screenToWorld
\* returns undefined and does not modify the point; when it succeeds it sets
\* the point and returns it.
C7_PointOnlyWhenInverted ==
  [][Called("screenToWorld") =>
       IF InvertFails(_viewProjection'.array)
         THEN lastCall'.ret = "undefined" /\ point' = point
         ELSE /\ lastCall'.ret = "point"
              /\ point'.kind = "world"
              /\ point' = WorldPoint(point'.x, point'.y, _viewProjection'.array)]_vars

C7_Witness ==
  /\ lastCall.op = "screenToWorld" /\ lastCall.ret = "undefined"
  /\ InvertFails(_viewProjection.array)
  /\ point.kind = "world"

\* C8: a prerender event calls transform.updateTransform() exactly when the
\* camera has no parent: the transform of a detached camera is brought up to
\* date, that of an attached camera is left as it is.
C8_UpdatesWhenDetached ==
  [][Called("prerender") =>
       /\ lastCall'.updated <=> parent = Null
       /\ parent = Null => ~localDirty' /\ (localDirty => _worldID' = _worldID + 1)
       /\ parent # Null => _worldID' = _worldID /\ localDirty' = localDirty]_vars

C8_Witness ==
  /\ lastCall.op = "prerender" /\ lastCall.updated
  /\ parent = Null /\ _worldID = 1 /\ ~localDirty

RenderOrder == <<"shader.bind", "state.set", "geometry.bind", "geometry.draw">>

\* C9: every render call performs shader bind, state set, geometry bind and
\* draw in this order, preceded by addShaderAttributes exactly when the
\* geometry does not have the attributes of the shader, so that
\* addShaderAttributes is called at most once for a shader and a geometry.
C9_AttributesOnce ==
  /\ [](/\ \A pair \in Geometries \X Shaders : addCalls[pair] <= 1
        /\ rendered.calls # <<>> =>
             LET fns == [i \in 1..Len(rendered.calls) |-> rendered.calls[i].fn]
             IN fns \in {RenderOrder, <<"geometry.addShaderAttributes">> \o RenderOrder})
  /\ [][rendered'.calls[1].fn = "geometry.addShaderAttributes"
          <=> <<rendered'.geometry, rendered'.shader>> \notin shaderAttributes]_meshVars

C9_Witness ==
  /\ Len(rendered.calls) = 4
  /\ addCalls[<<rendered.geometry, rendered.shader>>] = 1
  /\ Cardinality(shaderAttributes) >= 2

====
